---- MODULE Spec2Model ----
(***************************************************************************)
(* A model of component.js: the Element bindings (node caches, rendering), *)
(* the Component (define, findElement, the delegating handler) and the Hub *)
(* (components, observers, broadcast).                                     *)
(*                                                                         *)
(* Every call of the library runs synchronously to completion, so every    *)
(* operation is a function from a program state (a record, "s") to the     *)
(* program state it leaves, and every action applies one such function.    *)
(***************************************************************************)
EXTENDS Integers, Sequences, FiniteSets, TLC

VARIABLES
    children,       \* DOM: node -> its child nodes, in document order
    cls,            \* DOM: node -> its class (a selector matches a class)
    text,           \* DOM: node -> its textContent
    listeners,      \* DOM: node -> the native listeners added to it
    used,           \* number of nodes created by utils.createNode so far
    comps,          \* the Component objects created so far, by identity
    hubComponents,  \* Hub.components
    observers,      \* Hub.observers
    log,            \* handlers invoked by the last dispatch, in order
    delivered,      \* observer handlers invoked by the last emit, in order
    startups,       \* startup() hooks run by the last define, in order
    evStopped,      \* the last native event had stopPropagation() called
    err,            \* the last call threw a TypeError
    last            \* the last call made by the host application

vars == <<children, cls, text, listeners, used, comps, hubComponents,
          observers, log, delivered, startups, evStopped, err, last>>

----------------------------------------------------------------------------
(* Bounds of the model. *)

\* nodes that utils.createNode may create in one behaviour
MaxDyn == 3
\* the largest number of sources passed to a template
MaxSources == 1
\* Component objects Hub.create may create in one behaviour
MaxComps == 2
\* observer records Hub.subscribe may hold at once
MaxObservers == 2
\* binding specs passed to define in one behaviour
MaxDefined == 2
\* nodes that addGallery may create in one behaviour of the gallery scenario
MaxSubs == 3
MaxGalleryNodes == 5
\* the largest number of sources passed to addGallery
MaxGallerySources == 2

----------------------------------------------------------------------------
(* The document of test/test-component.js, lines 4-23, with two links.     *)

Nil == 0
NStatic == 11
MaxNode == NStatic + (IF MaxDyn > MaxGalleryNodes THEN MaxDyn ELSE MaxGalleryNodes)
Nodes == 1..MaxNode

ContainerEl == 1
HeaderEl == 2
ContentEl == 3
ListEl == 4
Link1El == 5
Link2El == 6
FooterEl == 7
ButtonEl == 8
OtherContainerEl == 9
OtherButtonEl == 10
\* document.body, the parent of both containers
BodyEl == 11

\* A class is <<component selector>> or <<component selector, element name>>.
SelComponent == "js-component"
SelOther == "js-other-component"
NoClass == <<>>

StaticChildren ==
    [n \in Nodes |->
        CASE n = BodyEl -> <<ContainerEl, OtherContainerEl>>
          [] n = ContainerEl -> <<HeaderEl, ContentEl, FooterEl>>
          [] n = ContentEl -> <<ListEl>>
          [] n = ListEl -> <<Link1El, Link2El>>
          [] n = FooterEl -> <<ButtonEl>>
          [] n = OtherContainerEl -> <<OtherButtonEl>>
          [] OTHER -> <<>>]

StaticCls ==
    [n \in Nodes |->
        CASE n = ContainerEl -> <<SelComponent>>
          [] n = HeaderEl -> <<SelComponent, "header">>
          [] n = ContentEl -> <<SelComponent, "content">>
          [] n \in {Link1El, Link2El} -> <<SelComponent, "link">>
          [] n = FooterEl -> <<SelComponent, "footer">>
          [] n = ButtonEl -> <<SelComponent, "button">>
          [] n = OtherContainerEl -> <<SelOther>>
          [] n = OtherButtonEl -> <<SelOther, "button">>
          [] OTHER -> NoClass]

\* textContent: a static node's text is named by the node, the header's is empty
NoText == 0
StaticText == [n \in Nodes |-> IF n \in {Link1El, Link2El, ButtonEl, OtherButtonEl} THEN n ELSE NoText]

----------------------------------------------------------------------------
(* The DOM and the utils collaborators.                                    *)

InSeq(x, q) == \E i \in DOMAIN q : q[i] = x

IndexOf(x, q) == IF InSeq(x, q) THEN CHOOSE i \in DOMAIN q : q[i] = x /\ \A j \in 1..(i-1) : q[j] # x ELSE 0

Without(q, x) == SelectSeq(q, LAMBDA y : y # x)

\* node.parentNode
Parent(s, n) ==
    IF \E p \in Nodes : InSeq(n, s.children[p])
    THEN CHOOSE p \in Nodes : InSeq(n, s.children[p])
    ELSE Nil

RECURSIVE PreorderList(_, _)
PreorderList(ch, ns) ==
    IF ns = <<>> THEN <<>>
    ELSE <<Head(ns)>> \o PreorderList(ch, ch[Head(ns)]) \o PreorderList(ch, Tail(ns))

\* utils.queryAll(selector, scope): the descendants of scope matching selector
QueryAll(s, selector, scope) ==
    SelectSeq(PreorderList(s.children, s.children[scope]), LAMBDA n : s.cls[n] = selector)

\* a.contains(b): b is a or a descendant of a
Contains(s, a, b) == b = a \/ InSeq(b, PreorderList(s.children, s.children[a]))

\* parent.removeChild(node)
RemoveChild(s, p, n) == [s EXCEPT !.children[p] = Without(@, n)]

\* target.appendChild(node): the node leaves its old parent, if any
AppendChild(s, target, n) ==
    LET p == Parent(s, n)
        s1 == IF p = Nil THEN s ELSE RemoveChild(s, p, n)
    IN [s1 EXCEPT !.children[target] = Append(@, n)]

Throw(s) == [s EXCEPT !.err = TRUE]

----------------------------------------------------------------------------
(* Element                                                                 *)
(*                                                                         *)
(* An element object is a record                                           *)
(*   [name, selector, handlers, template, startup, nodes]                  *)
(* handlers maps event types to what the handler does (a behaviour of the  *)
(* host application); template is [kind, child]: "none", "leaf" (one node) *)
(* or "embed" (one node holding one node of element `child` per source).   *)

NoTemplate == [kind |-> "none", child |-> ""]
LeafTemplate == [kind |-> "leaf", child |-> ""]
EmbedTemplate(child) == [kind |-> "embed", child |-> child]

Elements(s, c) == s.comps[c].elements
Container(s, c) == s.comps[c].container

\* Component.element(name): the position of the element in the Map, 0 if none
ElementIdx(s, c, name) ==
    IF \E i \in DOMAIN Elements(s, c) : Elements(s, c)[i].name = name
    THEN CHOOSE i \in DOMAIN Elements(s, c) : Elements(s, c)[i].name = name
    ELSE 0

SetNodes(s, c, i, ns) == [s EXCEPT !.comps[c].elements[i].nodes = ns]

\* a resolveNodes that adds what it finds to the list it holds
ResolvedNodesAppending(s, c, e) ==
    IF e.name = "self"
    THEN <<Container(s, c)>>
    ELSE e.nodes \o QueryAll(s, e.selector, Container(s, c))
\* the node list resolveNodes computes for element object e
ResolvedNodes(s, c, e) ==
    IF e.name = "self"
    THEN <<Container(s, c)>>
    ELSE QueryAll(s, e.selector, Container(s, c))

\* Element.resolveNodes
ResolveNodes(s, c, i) == SetNodes(s, c, i, ResolvedNodes(s, c, Elements(s, c)[i]))

\* Element.init: the element object made of a binding spec
DefaultSelector(s, c, name) ==
    IF name = "self" THEN <<s.comps[c].selector>> ELSE <<s.comps[c].selector, name>>

InitElement(s, c, spec) ==
    LET e0 == [name |-> spec.name,
               selector |-> IF spec.selector # NoClass THEN spec.selector
                            ELSE DefaultSelector(s, c, spec.name),
               handlers |-> spec.handlers,
               template |-> spec.template,
               startup |-> spec.startup,
               nodes |-> <<>>]
    IN [e0 EXCEPT !.nodes = ResolvedNodes(s, c, e0)]

\* a getAll that returns the cache as it is
GetAllNoResolve(s, c, i) == s
\* a getAll that re-resolves an empty cache only
GetAllEmptyOnly(s, c, i) ==
    IF Len(Elements(s, c)[i].nodes) = 0 THEN ResolveNodes(s, c, i) ELSE s
\* a getAll that re-resolves on every call
GetAllAlwaysResolve(s, c, i) == ResolveNodes(s, c, i)
\* Element.getAll: the state it leaves (the cache may be re-resolved) ...
GetAll(s, c, i) ==
    IF Len(Elements(s, c)[i].nodes) = 0 \/ Elements(s, c)[i].template.kind # "none"
    THEN ResolveNodes(s, c, i)
    ELSE s

\* ... and the list it returns
GetAllResult(s, c, i) == Elements(GetAll(s, c, i), c)[i].nodes

\* Element.get(index): the node, Nil when getAll()[index] is undefined
GetResult(s, c, i, index) ==
    LET ns == GetAllResult(s, c, i)
    IN IF index + 1 \in DOMAIN ns THEN ns[index + 1] ELSE Nil

\* Element.remove(index)
Remove(s, c, i, index) ==
    LET s1 == GetAll(s, c, i)
        node == GetResult(s, c, i, index)
    IN IF node = Nil \/ Parent(s1, node) = Nil
       THEN Throw(s1)
       ELSE ResolveNodes(RemoveChild(s1, Parent(s1, node), node), c, i)

\* this.nodes.forEach(node => node.parentNode.removeChild(node))
RECURSIVE DetachEach(_, _)
DetachEach(s, ns) ==
    IF ns = <<>> \/ s.err THEN s
    ELSE IF Parent(s, Head(ns)) = Nil THEN Throw(s)
    ELSE DetachEach(RemoveChild(s, Parent(s, Head(ns)), Head(ns)), Tail(ns))

\* Element.removeAll
RemoveAll(s, c, i) ==
    LET s1 == DetachEach(s, Elements(s, c)[i].nodes)
    IN IF s1.err THEN s1 ELSE SetNodes(s1, c, i, <<>>)

\* utils.createNode of the markup of a template: the root carries the
\* element's class (Element.init wraps the template), and an embedding
\* template holds k nodes made by the child's wrapped template.
FreshNodes(s, n) == [j \in 1..n |-> NStatic + s.used + j]

CreateNode(s, rootCls, childCls, k) ==
    LET fresh == FreshNodes(s, k + 1)
        root == fresh[1]
        kids == SubSeq(fresh, 2, k + 1)
    IN [state |-> [s EXCEPT !.used = @ + k + 1,
                            !.cls = [n \in Nodes |->
                                        IF n = root THEN rootCls
                                        ELSE IF InSeq(n, kids) THEN childCls
                                        ELSE @[n]],
                            !.text = [n \in Nodes |-> IF InSeq(n, fresh) THEN n ELSE @[n]],
                            !.children[root] = kids],
        node |-> root]

\* Element.render(...args): [state, node], node Nil when there is no template;
\* k is the number of sources given to an embedding template
Render(s, c, i, k) ==
    LET e == Elements(s, c)[i]
        ci == ElementIdx(s, c, e.template.child)
    IN CASE e.template.kind = "none" -> [state |-> s, node |-> Nil]
         [] e.template.kind = "leaf" -> CreateNode(s, e.selector, NoClass, 0)
         [] e.template.kind = "embed" ->
                IF k = 0 THEN CreateNode(s, e.selector, NoClass, 0)
                ELSE IF ci = 0 \/ Elements(s, c)[ci].template.kind = "none"
                THEN [state |-> Throw(s), node |-> Nil]
                ELSE CreateNode(s, e.selector, Elements(s, c)[ci].selector, k)

\* the refresh pass of renderTo, lines 144-146: resolveNodes reads only the
\* tree, so the turns of the loop do not depend on one another
NeedsRefresh(e) == Len(e.nodes) = 0 \/ e.template.kind # "none"

RefreshAll(s, c) ==
    LET es == Elements(s, c)
    IN [s EXCEPT !.comps[c].elements =
            [i \in DOMAIN es |->
                IF NeedsRefresh(es[i])
                THEN [es[i] EXCEPT !.nodes = ResolvedNodes(s, c, es[i])]
                ELSE es[i]]]

\* a renderTo whose refresh pass runs whether or not a node was appended
RenderToAlwaysRefresh(s, c, i, target, k) ==
    LET r == Render(s, c, i, k)
    IN IF r.state.err THEN r.state
       ELSE IF target # Nil /\ r.node # Nil
       THEN RefreshAll(AppendChild(r.state, target, r.node), c)
       ELSE RefreshAll(r.state, c)
\* Element.renderTo(target, ...args)
RenderTo(s, c, i, target, k) ==
    LET r == Render(s, c, i, k)
    IN IF r.state.err THEN r.state
       ELSE IF target # Nil /\ r.node # Nil
       THEN RefreshAll(AppendChild(r.state, target, r.node), c)
       ELSE r.state

----------------------------------------------------------------------------
(* Hub                                                                     *)
(*                                                                         *)
(* Hub.observers is an array object: delete splices it in place, while     *)
(* unsubscribe assigns a new array.  A broadcast under way keeps iterating *)
(* the array object it started on, so a program state holds the array      *)
(* objects (obsArrays) and which of them Hub.observers is (obsCur).        *)

Obs(s) == s.obsArrays[s.obsCur]
SetObs(s, arr) == [s EXCEPT !.obsArrays[s.obsCur] = arr]
NewObs(s, arr) == [s EXCEPT !.obsArrays = Append(@, arr), !.obsCur = Len(s.obsArrays) + 1]

RemoveAt(q, i) == SubSeq(q, 1, i - 1) \o SubSeq(q, i + 1, Len(q))

\* Component.init
NewComponent(node, selector) ==
    [container |-> node, selector |-> selector, elements |-> <<>>,
     registeredHandlers |-> {}, touches |-> FALSE]

\* Hub.create(name, node, selector): the new Component is Len(comps)
Create(s, node, selector) ==
    [s EXCEPT !.comps = Append(@, NewComponent(node, selector)),
              !.hubComponents = Append(@, Len(s.comps) + 1)]

\* Array.prototype.some with a splice: the first position of q satisfying P
FirstWith(q, P(_)) ==
    IF \E i \in DOMAIN q : P(q[i])
    THEN CHOOSE i \in DOMAIN q : P(q[i]) /\ \A j \in 1..(i - 1) : ~P(q[j])
    ELSE 0

\* a delete that also takes the Components' native listeners off the node
DeleteWithListeners(s, node) ==
    LET ci == FirstWith(s.hubComponents, LAMBDA c : s.comps[c].container = node)
        s1 == IF ci = 0 THEN s ELSE [s EXCEPT !.hubComponents = RemoveAt(@, ci)]
        oi == FirstWith(Obs(s1), LAMBDA o : s.comps[o.component].container = node)
        s2 == IF oi = 0 THEN s1 ELSE SetObs(s1, RemoveAt(Obs(s1), oi))
    IN [s2 EXCEPT !.listeners[node] = <<>>]
\* Hub.delete(node)
Delete(s, node) ==
    LET ci == FirstWith(s.hubComponents, LAMBDA c : s.comps[c].container = node)
        s1 == IF ci = 0 THEN s ELSE [s EXCEPT !.hubComponents = RemoveAt(@, ci)]
        oi == FirstWith(Obs(s1), LAMBDA o : s.comps[o.component].container = node)
    IN IF oi = 0 THEN s1 ELSE SetObs(s1, RemoveAt(Obs(s1), oi))

\* Hub.subscribe(component, event, handler)
Subscribe(s, c, event, handler) ==
    SetObs(s, Append(Obs(s), [component |-> c, event |-> event, handler |-> handler]))

\* an unsubscribe that takes no notice of the event
UnsubscribeAllEvents(s, c, event) ==
    NewObs(s, SelectSeq(Obs(s), LAMBDA o : o.component # c))
\* Hub.unsubscribe(component, event); event "" is falsy (or omitted)
Unsubscribe(s, c, event) ==
    NewObs(s, SelectSeq(Obs(s),
        LAMBDA o : ~(o.component = c /\ (event = "" \/ o.event = event))))

\* Object.assign(Object.create(null), defaultPayload, payload): payloads are
\* functions from field names to values, <<>> for an absent or empty payload
Overlay(base, over) ==
    [k \in DOMAIN base \cup DOMAIN over |-> IF k \in DOMAIN over THEN over[k] ELSE base[k]]

\* an overlay the wrong way round: the default target wins
PayloadNoOverlay(c, payload) == Overlay(payload, [target |-> c])
\* the payload the handlers are given, line 388
PayloadOf(c, payload) == Overlay([target |-> c], payload)

\* The handlers the host application subscribes (Hub.subscribe's handler,
\* bound to the subscribing Component):
\*   "log"           reads the payload
\*   "removeGallery" test-component.js 106-109: removes the gallery nodes and
\*                   writes payload.key to the header
\*   "deleteSelf"    tears its own Component down: Hub.delete(this.container)
\*   "subscribe"     Hub.subscribe(this, the event, a "log" handler)
\*   "unsubscribe"   Hub.unsubscribe(this)
\*   "relay"         this.emit(RelayEvent, the payload's own fields)
ObserverKinds == {"log", "removeGallery", "deleteSelf", "subscribe", "unsubscribe", "relay"}
RelayEvent == "pong"

HeaderWrite(s, c, value) ==
    LET hi == ElementIdx(s, c, "header")
    IN IF hi = 0 \/ GetResult(s, c, hi, 0) = Nil THEN Throw(s)
       ELSE [GetAll(s, c, hi) EXCEPT !.text[GetResult(s, c, hi, 0)] = value]

RECURSIVE Emit(_, _, _, _)
RunObserver(s, o, payload) ==
    LET s1 == [s EXCEPT !.delivered = Append(@,
                    [component |-> o.component, event |-> o.event,
                     kind |-> o.handler, payload |-> payload])]
        gi == ElementIdx(s1, o.component, "gallery")
        s2 == IF gi = 0 THEN Throw(s1) ELSE RemoveAll(s1, o.component, gi)
    IN CASE o.handler = "log" -> s1
         [] o.handler = "deleteSelf" -> Delete(s1, Container(s1, o.component))
         [] o.handler = "subscribe" -> Subscribe(s1, o.component, o.event, "log")
         [] o.handler = "unsubscribe" -> Unsubscribe(s1, o.component, "")
         [] o.handler = "relay" ->
                Emit(s1, o.component, RelayEvent,
                     [k \in DOMAIN payload \ {"target"} |-> payload[k]])
         [] o.handler = "removeGallery" ->
                IF s2.err THEN s2
                ELSE HeaderWrite(s2, o.component,
                        IF "key" \in DOMAIN payload THEN payload["key"] ELSE NoText)

\* this.observers.forEach(...): positions k..len of array object ref, where
\* len is the array's length when the broadcast began and a position the
\* array no longer has is skipped
RECURSIVE BroadcastFrom(_, _, _, _, _, _, _)
BroadcastFrom(s, ref, k, len, c, event, payload) ==
    IF k > len \/ s.err THEN s
    ELSE LET arr == s.obsArrays[ref]
             s1 == IF k <= Len(arr) /\ c # arr[k].component /\ event = arr[k].event
                   THEN RunObserver(s, arr[k], payload)
                   ELSE s
         IN BroadcastFrom(s1, ref, k + 1, len, c, event, payload)

\* a broadcast whose nested deliveries are put off until its own are done
BroadcastOuterFirst(s, c, event, payload) ==
    LET r == BroadcastFrom(s, s.obsCur, 1, Len(Obs(s)), c, event, PayloadOf(c, payload))
        new == SubSeq(r.delivered, Len(s.delivered) + 1, Len(r.delivered))
    IN [r EXCEPT !.delivered =
            s.delivered \o SelectSeq(new, LAMBDA d : d.event = event)
                        \o SelectSeq(new, LAMBDA d : d.event # event)]
\* Hub.broadcast(component, event, payload)
Broadcast(s, c, event, payload) ==
    BroadcastFrom(s, s.obsCur, 1, Len(Obs(s)), c, event, PayloadOf(c, payload))

\* Component.emit(event, payload)
Emit(s, c, event, payload) == Broadcast(s, c, event, payload)

\* Component.listen(...events): events is a sequence of [event, handler]
RECURSIVE Listen(_, _, _)
Listen(s, c, events) ==
    IF events = <<>> THEN s
    ELSE Listen(Subscribe(s, c, Head(events).event, Head(events).handler), c, Tail(events))

----------------------------------------------------------------------------
(* Component                                                               *)

\* the event types of the model, in the order define meets them
EventTypes == <<"click", "focus", "touchmove", "touchstart">>
TypeSet == {EventTypes[i] : i \in DOMAIN EventTypes}
CapturingTypes == {"blur", "focus", "mouseenter", "mouseleave"}

\* container.addEventListener(type, listener, useCapture); kind tells the
\* delegating handler ("handler") from the touchstart recorder ("touches")
AddEventListener(s, node, type, c, kind, capture) ==
    [s EXCEPT !.listeners[node] = Append(@,
        [type |-> type, owner |-> c, kind |-> kind, capture |-> capture])]

\* a registration that does not look at registeredHandlers
RegisterAlways(s, c, type) ==
    AddEventListener([s EXCEPT !.comps[c].registeredHandlers = @ \cup {type}],
                     Container(s, c), type, c, "handler", type \in CapturingTypes)
\* define, lines 178-194: one event type of one element's handlers
RegisterType(s, c, type) ==
    IF type \in s.comps[c].registeredHandlers THEN s
    ELSE LET s1 == AddEventListener(s, Container(s, c), type, c, "handler",
                                    type \in CapturingTypes)
             s2 == [s1 EXCEPT !.comps[c].registeredHandlers = @ \cup {type}]
         IN IF type = "touchmove" /\ ~s2.comps[c].touches
            THEN AddEventListener([s2 EXCEPT !.comps[c].touches = TRUE],
                                  Container(s, c), "touchstart", c, "touches", FALSE)
            ELSE s2

RECURSIVE RegisterTypes(_, _, _, _)
RegisterTypes(s, c, handlers, k) ==
    IF k > Len(EventTypes) THEN s
    ELSE RegisterTypes(
            IF EventTypes[k] \in DOMAIN handlers THEN RegisterType(s, c, EventTypes[k]) ELSE s,
            c, handlers, k + 1)

\* define, lines 198-200: startup() of every element with a non-empty cache
StartupRecord(s, c, e) == [name |-> e.name, defined |-> Len(Elements(s, c))]

RunStartups(s, c) ==
    LET due == SelectSeq(Elements(s, c), LAMBDA e : Len(e.nodes) > 0 /\ e.startup)
    IN [s EXCEPT !.startups = @ \o [j \in DOMAIN due |-> StartupRecord(s, c, due[j])]]

\* this.elements.set(name, element): a Map keeps the place of a known key
SetElement(s, c, e) ==
    LET i == ElementIdx(s, c, e.name)
    IN IF i = 0 THEN [s EXCEPT !.comps[c].elements = Append(@, e)]
       ELSE [s EXCEPT !.comps[c].elements[i] = e]

\* Component.define(...elements): one turn of its loop per binding spec
RECURSIVE Define(_, _, _)
Define(s, c, specs) ==
    IF s.err \/ specs = <<>> THEN s
    ELSE LET e == InitElement(s, c, Head(specs))
             s1 == SetElement(s, c, e)
             s2 == RegisterTypes(s1, c, e.handlers, 1)
             s3 == RunStartups(s2, c)
         IN Define(s3, c, Tail(specs))

\* a findElement that matches the node's class instead of the caches
FindElementByClass(s, c, node) ==
    LET es == Elements(s, c)
    IN IF \E i \in DOMAIN es : s.cls[node] = es[i].selector
       THEN LET i == CHOOSE i \in DOMAIN es :
                        s.cls[node] = es[i].selector /\ \A j \in 1..(i - 1) : s.cls[node] # es[j].selector
            IN [elem |-> i, index |-> IndexOf(node, ResolvedNodes(s, c, es[i])) - 1]
       ELSE [elem |-> 0, index |-> 0]
\* a findElement that keeps the last binding whose cache holds the node
FindElementLast(s, c, node) ==
    LET es == Elements(s, c)
    IN IF \E i \in DOMAIN es : InSeq(node, es[i].nodes)
       THEN LET i == CHOOSE i \in DOMAIN es :
                        InSeq(node, es[i].nodes)
                        /\ \A j \in DOMAIN es : j > i => ~InSeq(node, es[j].nodes)
            IN [elem |-> i, index |-> IndexOf(node, es[i].nodes) - 1]
       ELSE [elem |-> 0, index |-> 0]
\* Component.findElement(node): [elem, index], elem 0 when no cache holds node
FindElement(s, c, node) ==
    LET es == Elements(s, c)
    IN IF \E i \in DOMAIN es : InSeq(node, es[i].nodes)
       THEN LET i == CHOOSE i \in DOMAIN es :
                        InSeq(node, es[i].nodes) /\ \A j \in 1..(i - 1) : ~InSeq(node, es[j].nodes)
            IN [elem |-> i, index |-> IndexOf(node, es[i].nodes) - 1]
       ELSE [elem |-> 0, index |-> 0]


\* The handlers the host application declares on its elements (this = the
\* element, called with (ev, index)), after test-component.js 54-82, 113-122:
\*   "mark"      footer: this.get().classList.add('is-clicked')
\*   "stop"      button: ev.stopInnerPropagation(), then marks this.get()
\*   "setHeader" link: header.get().textContent = this.get(index).textContent
\*   "emit"      other button: emit('testEvent', {key: 'value'})
\* and two handlers that take nodes out of the tree:
\*   "remove"        this.remove(index)
\*   "removeGallery" Component.element('gallery').removeAll(), as the
\*                   removeGallery action of test-component.js 49-51
HandlerKinds == {"mark", "stop", "setHeader", "emit", "remove", "removeGallery"}
KeyValue == 99

\* ev.stopInnerPropagation, lines 255-258
StopInnerPropagation(s) == [s EXCEPT !.evStopped = TRUE, !.walkStop = TRUE]

RunHandler(s, c, i, index, ev, current) ==
    LET kind == Elements(s, c)[i].handlers[ev.type]
        s0 == IF kind = "stop" THEN StopInnerPropagation(s) ELSE s
        s1 == [s0 EXCEPT !.log = Append(@,
                  [elem |-> Elements(s, c)[i].name, index |-> index, node |-> current,
                   stop |-> (kind = "stop")])]
        own == GetResult(s1, c, i, IF kind = "setHeader" THEN index ELSE 0)
        s2 == GetAll(s1, c, i)
    IN CASE kind \in {"mark", "stop"} -> IF own = Nil THEN Throw(s2) ELSE s2
         [] kind = "setHeader" ->
                IF ElementIdx(s1, c, "header") = 0 THEN Throw(s1)
                ELSE IF own = Nil THEN Throw(GetAll(s2, c, ElementIdx(s1, c, "header")))
                ELSE HeaderWrite(s2, c, s2.text[own])
         [] kind = "emit" -> Emit(s1, c, "testEvent", [key |-> KeyValue])
         [] kind = "remove" -> Remove(s1, c, i, index)
         [] kind = "removeGallery" ->
                IF ElementIdx(s1, c, "gallery") = 0 THEN Throw(s1)
                ELSE RemoveAll(s1, c, ElementIdx(s1, c, "gallery"))

\* an isOutsideRelated that takes a related node equal to current as outside
IsOutsideRelatedOrSame(s, current, related) ==
    related = Nil \/ current = related \/ ~Contains(s, current, related)
\* lines 276-278
IsOutsideRelated(s, current, related) ==
    related = Nil \/ (~Contains(s, current, related) /\ current # related)

\* a walk that goes on to the container whatever the handlers did
RECURSIVE WalkIgnoringStop(_, _, _, _)
WalkIgnoringStop(s, c, ev, current) ==
    IF s.err THEN s
    ELSE IF current = Nil THEN Throw(s)
    ELSE LET f == FindElement(s, c, current)
             s1 == IF f.elem # 0
                      /\ ev.type \in DOMAIN Elements(s, c)[f.elem].handlers
                      /\ IsOutsideRelated(s, current, ev.related)
                   THEN RunHandler(s, c, f.elem, f.index, ev, current)
                   ELSE s
         IN IF current = Container(s, c) THEN s1
            ELSE WalkIgnoringStop(s1, c, ev, Parent(s1, current))

\* Component.handler, lines 272-290: the walk from `current` on
RECURSIVE Walk(_, _, _, _)
Walk(s, c, ev, current) ==
    IF s.walkStop \/ s.err THEN s
    ELSE IF current = Nil THEN Throw(s)
    ELSE LET f == FindElement(s, c, current)
             s1 == IF f.elem # 0
                      /\ ev.type \in DOMAIN Elements(s, c)[f.elem].handlers
                      /\ IsOutsideRelated(s, current, ev.related)
                   THEN RunHandler(s, c, f.elem, f.index, ev, current)
                   ELSE s
         IN IF current = Container(s, c)
            THEN [s1 EXCEPT !.walkStop = TRUE]
            ELSE Walk(s1, c, ev, Parent(s1, current))

\* a handler that starts at ev.currentTarget, the container
HandlerAtCurrentTarget(s, c, ev) ==
    Walk([s EXCEPT !.walkStop = FALSE], c, ev, Container(s, c))
\* Component.handler(ev), ev = [type, target, related]
Handler(s, c, ev) == Walk([s EXCEPT !.walkStop = FALSE], c, ev, ev.target)

----------------------------------------------------------------------------
(* The calls of the host application.                                      *)

\* the program state at the start of a call
Cur ==
    [children |-> children, cls |-> cls, text |-> text, listeners |-> listeners,
     used |-> used, comps |-> comps, hubComponents |-> hubComponents,
     obsArrays |-> <<observers>>, obsCur |-> 1,
     log |-> <<>>, delivered |-> <<>>, startups |-> <<>>,
     evStopped |-> FALSE, err |-> FALSE, walkStop |-> FALSE]

NoCall ==
    [op |-> "none", comp |-> 0, elem |-> 0, node |-> Nil, k |-> 0, type |-> "",
     related |-> Nil, event |-> "", payload |-> <<>>]

Call(op, c, i, node, k) ==
    [NoCall EXCEPT !.op = op, !.comp = c, !.elem = i, !.node = node, !.k = k]

\* the state a call leaves
Commit(s, call) ==
    /\ children' = s.children
    /\ cls' = s.cls
    /\ text' = s.text
    /\ listeners' = s.listeners
    /\ used' = s.used
    /\ comps' = s.comps
    /\ hubComponents' = s.hubComponents
    /\ observers' = Obs(s)
    /\ log' = s.log
    /\ delivered' = s.delivered
    /\ startups' = s.startups
    /\ evStopped' = s.evStopped
    /\ err' = s.err
    /\ last' = call

CompIds == DOMAIN comps
ElemIds(c) == DOMAIN comps[c].elements

\* nodes in the document: the body and its descendants
Attached(ch) == PreorderList(ch, <<BodyEl>>)
InDocument(n) == InSeq(n, Attached(children))

\* element.renderTo(target, sources)
CallRenderTo(c, i, target, k) ==
    /\ used + k + 1 <= MaxDyn
    /\ Commit(RenderTo(Cur, c, i, target, k), Call("renderTo", c, i, target, k))

\* target.appendChild(element.render(sources)) (readme, line 127)
CallRenderAppend(c, i, target, k) ==
    /\ used + k + 1 <= MaxDyn
    /\ comps[c].elements[i].template.kind # "none"
    /\ LET r == Render(Cur, c, i, k)
       IN Commit(IF r.state.err THEN r.state ELSE AppendChild(r.state, target, r.node),
                 Call("render", c, i, target, k))

\* element.remove(index)
CallRemove(c, i, index) == Commit(Remove(Cur, c, i, index), Call("remove", c, i, Nil, index))

\* element.removeAll()
CallRemoveAll(c, i) == Commit(RemoveAll(Cur, c, i), Call("removeAll", c, i, Nil, 0))

\* element.getAll()
CallGetAll(c, i) == Commit(GetAll(Cur, c, i), Call("getAll", c, i, Nil, 0))

\* a native event of `type` at `target`, reaching Component c's listener
HasListener(c, type) ==
    \E j \in DOMAIN listeners[comps[c].container] :
        LET l == listeners[comps[c].container][j]
        IN l.owner = c /\ l.type = type /\ l.kind = "handler"

Dispatch(c, type, target, related) ==
    /\ HasListener(c, type)
    /\ Contains(Cur, comps[c].container, target)
    /\ related = Nil \/ InDocument(related)
    /\ Commit(Handler(Cur, c, [type |-> type, target |-> target, related |-> related]),
              [Call("dispatch", c, 0, target, 0) EXCEPT !.type = type, !.related = related])

\* component.define(...specs)
CallDefine(c, specs) ==
    Commit(Define(Cur, c, specs), Call("define", c, 0, Nil, Len(specs)))

\* Hub.create(name, node, selector)
CallCreate(node, selector) ==
    /\ Len(comps) < MaxComps
    /\ Commit(Create(Cur, node, selector), Call("create", Len(comps) + 1, 0, node, 0))

\* Hub.delete(node)
CallDelete(node) == Commit(Delete(Cur, node), Call("delete", 0, 0, node, 0))

\* component.listen(...events)
CallListen(c, events) ==
    /\ Len(observers) + Len(events) <= MaxObservers
    /\ Commit(Listen(Cur, c, events), Call("listen", c, 0, Nil, Len(events)))

\* Hub.unsubscribe(component, event); the call record keeps the number of
\* records Hub.observers held before the call
CallUnsubscribe(c, event) ==
    Commit(Unsubscribe(Cur, c, event),
           [Call("unsubscribe", c, 0, Nil, Len(observers)) EXCEPT !.event = event])

\* Hub.subscribe(component, event, handler)
CallSubscribe(c, event, handler) ==
    /\ Len(observers) < MaxSubs
    /\ Commit(Subscribe(Cur, c, event, handler),
              [Call("subscribe", c, 0, Nil, 0) EXCEPT !.event = event])

\* component.emit(event, payload)
CallEmit(c, event, payload) ==
    Commit(Emit(Cur, c, event, payload),
           [Call("emit", c, 0, Nil, 0) EXCEPT !.event = event, !.payload = payload])

----------------------------------------------------------------------------
(* The state after construction.                                           *)

Start ==
    [children |-> StaticChildren, cls |-> StaticCls, text |-> StaticText,
     listeners |-> [n \in Nodes |-> <<>>], used |-> 0, comps |-> <<>>,
     hubComponents |-> <<>>, obsArrays |-> <<(<<>>)>>, obsCur |-> 1,
     log |-> <<>>, delivered |-> <<>>, startups |-> <<>>,
     evStopped |-> FALSE, err |-> FALSE, walkStop |-> FALSE]

InitAs(s) ==
    /\ children = s.children
    /\ cls = s.cls
    /\ text = s.text
    /\ listeners = s.listeners
    /\ used = s.used
    /\ comps = s.comps
    /\ hubComponents = s.hubComponents
    /\ observers = Obs(s)
    /\ log = <<>>
    /\ delivered = <<>>
    /\ startups = <<>>
    /\ evStopped = FALSE
    /\ err = FALSE
    /\ last = NoCall

BindingSpec(name, handlers, template) ==
    [name |-> name, selector |-> NoClass, handlers |-> handlers, template |-> template,
     startup |-> FALSE]

\* test-component.js, lines 36-122
TestSpecs ==
    << BindingSpec("header", <<>>, NoTemplate),
       BindingSpec("content", <<>>, NoTemplate),
       BindingSpec("footer", [click |-> "mark"], NoTemplate),
       BindingSpec("link", [click |-> "setHeader"], NoTemplate),
       BindingSpec("button", [click |-> "stop"], NoTemplate),
       BindingSpec("gallery", <<>>, EmbedTemplate("image")),
       BindingSpec("image", <<>>, LeafTemplate) >>

OtherSpecs == << BindingSpec("button", [click |-> "emit"], NoTemplate) >>

TestSetup ==
    LET s1 == Create(Create(Start, ContainerEl, SelComponent), OtherContainerEl, SelOther)
        s2 == Define(s1, 1, TestSpecs)
        s3 == Listen(s2, 1, << [event |-> "testEvent", handler |-> "removeGallery"] >>)
    IN Define(s3, 2, OtherSpecs)

----------------------------------------------------------------------------
(* SpecDom: the two Components of the test on the test's document, with    *)
(* a click handler on the dynamic image element as well.                   *)

DomSpecs == [TestSpecs EXCEPT ![7] = BindingSpec("image", [click |-> "mark"], LeafTemplate)]

DomSetup ==
    LET s1 == Create(Create(Start, ContainerEl, SelComponent), OtherContainerEl, SelOther)
        s2 == Define(s1, 1, DomSpecs)
        s3 == Listen(s2, 1, << [event |-> "testEvent", handler |-> "removeGallery"] >>)
    IN Define(s3, 2, OtherSpecs)

InitDom == InitAs(DomSetup)

RenderTargets == {ContentEl}
DomTypes == {"click"}
DynElems(c) == {i \in ElemIds(c) : comps[c].elements[i].template.kind # "none"}

NextDom ==
    \/ \E i \in DynElems(1), target \in RenderTargets, k \in 0..MaxSources :
            CallRenderTo(1, i, target, k)
    \/ \E i \in DynElems(1), k \in 0..MaxSources :
            CallRenderAppend(1, i, ContentEl, k)
    \/ \E i \in DynElems(1), index \in 0..1 : CallRemove(1, i, index)
    \/ \E i \in DynElems(1) : CallRemoveAll(1, i)
    \/ \E i \in DynElems(1) : CallGetAll(1, i)
    \/ \E c \in CompIds, type \in DomTypes, target \in Nodes :
            Dispatch(c, type, target, Nil)

SpecDom == InitDom /\ [][NextDom]_vars

----------------------------------------------------------------------------
(* SpecDefine: one Component, defined call by call.                        *)

DefineNames == {"self", "link", "button"}
DefineHandlers ==
    { <<>>,
      [click |-> "mark"],
      [click |-> "mark", focus |-> "mark"],
      [touchmove |-> "mark"],
      [touchstart |-> "mark"],
      [touchmove |-> "mark", touchstart |-> "mark"] }
DefineCatalog == {BindingSpec(n, h, NoTemplate) : n \in DefineNames, h \in DefineHandlers}

InitDefine == InitAs(Create(Start, ContainerEl, SelComponent))

NextDefine ==
    \E specs \in {<<a>> : a \in DefineCatalog} \cup {<<a, b>> : a, b \in DefineCatalog} :
        /\ Len(comps[1].elements) + Len(specs) <= MaxDefined
        /\ CallDefine(1, specs)

SpecDefine == InitDefine /\ [][NextDefine]_vars

----------------------------------------------------------------------------
(* SpecHub: Components created, subscribed, emitting and deleted.          *)

HubEvents == {"ping", "pong"}
HubContainers == {ContainerEl, OtherContainerEl}
HubSelector(node) == IF node = ContainerEl THEN SelComponent ELSE SelOther
HubSubscriptions ==
    { [event |-> "ping", handler |-> "log"],
      [event |-> "pong", handler |-> "deleteSelf"] }
HubPayloads == { <<>>, [key |-> KeyValue], [target |-> Nil, key |-> KeyValue] }

InitHub == InitAs(Start)

NextHub ==
    \/ \E node \in HubContainers : CallCreate(node, HubSelector(node))
    \/ \E node \in HubContainers : CallDelete(node)
    \/ \E c \in CompIds :
        \E events \in {<<a>> : a \in HubSubscriptions} \cup {<<a, b>> : a, b \in HubSubscriptions} :
            CallListen(c, events)
    \/ \E c \in CompIds, event \in HubEvents \cup {""} : CallUnsubscribe(c, event)
    \/ \E c \in CompIds, event \in HubEvents, payload \in HubPayloads : CallEmit(c, event, payload)

SpecHub == InitHub /\ [][NextHub]_vars

----------------------------------------------------------------------------
(* SpecGallery: the Components of the test as the test defines them, driven *)
(* through the actions of 'content' (test-component.js, lines 46-51).       *)

InitGallery == InitAs(TestSetup)

\* content.actions.addGallery(sources), with k sources:
\* Component.element('gallery').renderTo(this.get(), sources)
AddGallery(k) ==
    /\ used + k + 1 <= MaxGalleryNodes
    /\ LET ci == ElementIdx(Cur, 1, "content")
           gi == ElementIdx(Cur, 1, "gallery")
           s1 == GetAll(Cur, 1, ci)
       IN Commit(RenderTo(s1, 1, gi, GetResult(Cur, 1, ci, 0), k),
                 Call("addGallery", 1, gi, GetResult(Cur, 1, ci, 0), k))

\* content.actions.removeGallery(): Component.element('gallery').removeAll()
RemoveGallery ==
    LET gi == ElementIdx(Cur, 1, "gallery")
    IN Commit(RemoveAll(Cur, 1, gi), Call("removeGallery", 1, gi, Nil, 0))

NextGallery ==
    \/ \E k \in 0..MaxGallerySources : AddGallery(k)
    \/ RemoveGallery
    \/ CallGetAll(1, ElementIdx(Cur, 1, "image"))
    \/ Dispatch(2, "click", OtherButtonEl, Nil)

SpecGallery == InitGallery /\ [][NextGallery]_vars

----------------------------------------------------------------------------
(* SpecStartup: one Component, defined call by call with bindings that     *)
(* have a startup() hook (readme.md, line 121).                            *)

StartupNames == {"self", "link", "button", "gallery"}
StartupCatalog ==
    {[BindingSpec(n, <<>>, IF n = "gallery" THEN LeafTemplate ELSE NoTemplate)
        EXCEPT !.startup = b] : n \in StartupNames, b \in BOOLEAN}

InitStartup == InitAs(Create(Start, ContainerEl, SelComponent))

NextStartup ==
    \E specs \in {<<a>> : a \in StartupCatalog}
                    \cup {<<a, b>> : a, b \in StartupCatalog} :
        /\ \A j, k \in DOMAIN specs : j # k => specs[j].name # specs[k].name
        /\ Len(comps[1].elements) + Len(specs) <= MaxDefined
        /\ CallDefine(1, specs)

SpecStartup == InitStartup /\ [][NextStartup]_vars

----------------------------------------------------------------------------
(* SpecDetach: the Component of the test with a click handler on 'image'   *)
(* that takes nodes out of the tree: the clicked image itself, or every    *)
(* gallery (an ancestor of an image rendered inside a gallery).            *)

DetachHandlers == {"remove", "removeGallery"}
DetachSetup(kind) ==
    Define(Create(Start, ContainerEl, SelComponent), 1,
           [TestSpecs EXCEPT ![7] = BindingSpec("image", [click |-> kind], LeafTemplate)])

InitDetach == \E kind \in DetachHandlers : InitAs(DetachSetup(kind))

NextDetach ==
    \/ \E i \in DynElems(1), k \in 0..MaxSources : CallRenderTo(1, i, ContentEl, k)
    \/ \E target \in Nodes : Dispatch(1, "click", target, Nil)

SpecDetach == InitDetach /\ [][NextDetach]_vars

----------------------------------------------------------------------------
(* SpecRelated: a Component on the test's document whose bindings all have *)
(* a handler for click (bubbling) and for focus (capturing); events arrive *)
(* with and without a relatedTarget.                                       *)

RelatedNames == <<"self", "header", "content", "footer", "link", "button">>
RelatedTypes == {"click", "focus"}
RelatedSpecs ==
    [j \in DOMAIN RelatedNames |->
        BindingSpec(RelatedNames[j], [click |-> "mark", focus |-> "mark"], NoTemplate)]

InitRelated == InitAs(Define(Create(Start, ContainerEl, SelComponent), 1, RelatedSpecs))

NextRelated ==
    \E type \in RelatedTypes, target \in Nodes, related \in Nodes \cup {Nil} :
        Dispatch(1, type, target, related)

SpecRelated == InitRelated /\ [][NextRelated]_vars

----------------------------------------------------------------------------
(* SpecCache: a Component with 'self', two static bindings and a dynamic    *)
(* one, and the node operations called on every one of them.               *)

CacheSpecs ==
    << BindingSpec("self", [click |-> "mark"], NoTemplate),
       BindingSpec("content", [click |-> "mark"], NoTemplate),
       BindingSpec("link", [click |-> "mark"], NoTemplate),
       BindingSpec("image", [click |-> "mark"], LeafTemplate) >>

InitCache == InitAs(Define(Create(Start, ContainerEl, SelComponent), 1, CacheSpecs))

\* renderTo is called on every binding, with a target and with none
CacheTargets == {ContentEl, Nil}

NextCache ==
    \/ \E i \in ElemIds(1), target \in CacheTargets, k \in 0..MaxSources :
            CallRenderTo(1, i, target, k)
    \/ \E i \in ElemIds(1), index \in 0..1 : CallRemove(1, i, index)
    \/ \E i \in ElemIds(1) : CallRemoveAll(1, i)
    \/ \E i \in ElemIds(1) : CallGetAll(1, i)
    \/ \E target \in Nodes : Dispatch(1, "click", target, Nil)

SpecCache == InitCache /\ [][NextCache]_vars

----------------------------------------------------------------------------
(* SpecShared: a Component with two bindings on the same nodes: 'item' is  *)
(* given the selector of 'link' and is inserted before it.                 *)

SharedTypes == {"click", "focus"}
SharedHandlers ==
    {<<>>, [click |-> "mark"], [focus |-> "mark"], [click |-> "mark", focus |-> "mark"]}

SharedSpecs(h1, h2) ==
    << BindingSpec("content", [click |-> "mark", focus |-> "mark"], NoTemplate),
       [BindingSpec("item", h1, NoTemplate) EXCEPT !.selector = <<SelComponent, "link">>],
       BindingSpec("link", h2, NoTemplate) >>

InitShared ==
    \E h1, h2 \in SharedHandlers :
        InitAs(Define(Create(Start, ContainerEl, SelComponent), 1, SharedSpecs(h1, h2)))

NextShared == \E type \in SharedTypes, target \in Nodes : Dispatch(1, type, target, Nil)

SpecShared == InitShared /\ [][NextShared]_vars

----------------------------------------------------------------------------
(* SpecBroadcast: two Components whose subscribed handlers change           *)
(* Hub.observers or emit in turn while a broadcast is under way.            *)

BroadcastSubscriptions ==
    { [event |-> "ping", handler |-> "log"],
      [event |-> "ping", handler |-> "deleteSelf"],
      [event |-> "ping", handler |-> "subscribe"],
      [event |-> "ping", handler |-> "unsubscribe"],
      [event |-> "ping", handler |-> "relay"],
      [event |-> RelayEvent, handler |-> "log"] }

InitBroadcast ==
    InitAs(Create(Create(Start, ContainerEl, SelComponent), OtherContainerEl, SelOther))

NextBroadcast ==
    \/ \E c \in CompIds, a \in BroadcastSubscriptions : CallSubscribe(c, a.event, a.handler)
    \/ \E c \in CompIds, event \in HubEvents \cup {""} : CallUnsubscribe(c, event)
    \/ \E c \in CompIds, event \in HubEvents :
            Len(observers) <= MaxSubs /\ CallEmit(c, event, [key |-> KeyValue])

SpecBroadcast == InitBroadcast /\ [][NextBroadcast]_vars

----------------------------------------------------------------------------
(* SpecDeleted: the Components of the test, deleted from the Hub while the  *)
(* document goes on sending them events.                                   *)

InitDeleted == InitAs(DomSetup)

NextDeleted ==
    \/ \E node \in HubContainers : CallDelete(node)
    \/ \E i \in DynElems(1), k \in 0..MaxSources : CallRenderTo(1, i, ContentEl, k)
    \/ \E c \in CompIds, target \in Nodes : Dispatch(c, "click", target, Nil)

SpecDeleted == InitDeleted /\ [][NextDeleted]_vars

----------------------------------------------------------------------------
(* Properties of define (SpecDefine).                                      *)

\* native listeners of Component c on its container, by type and kind
ListenersOf(c, type, kinds) ==
    SelectSeq(listeners[comps[c].container],
              LAMBDA l : l.owner = c /\ l.type = type /\ l.kind \in kinds)
NativeCount(c, type) == Len(ListenersOf(c, type, {"handler", "touches"}))
DelegatingCount(c, type) == Len(ListenersOf(c, type, {"handler"}))
RecorderCount(c, type) == Len(ListenersOf(c, type, {"touches"}))
Declared(c, type) ==
    \E i \in DOMAIN comps[c].elements : type \in DOMAIN comps[c].elements[i].handlers

\* C1, as stated: after any sequence of define calls, for every event type
\* the container carries at most one native listener of the Component, and
\* exactly one for every type some binding declares a handler for.
C1_ListenerCountAsStated ==
    \A c \in CompIds : \A type \in TypeSet :
        /\ NativeCount(c, type) <= 1
        /\ Declared(c, type) => NativeCount(c, type) = 1

\* C1, amended: after any sequence of define calls, for every event type the
\* container carries at most one delegating listener of the Component, and
\* exactly one for every type some binding declares a handler for; besides
\* these it carries exactly one touchstart recorder once a touchmove handler
\* has been registered, and no other listener.
C1_ListenerCount ==
    \A c \in CompIds : \A type \in TypeSet :
        /\ DelegatingCount(c, type) <= 1
        /\ Declared(c, type) => DelegatingCount(c, type) = 1
        /\ DelegatingCount(c, type) = 1 <=> type \in comps[c].registeredHandlers
        /\ RecorderCount(c, type) =
              IF type = "touchstart" /\ DelegatingCount(c, "touchmove") = 1 THEN 1 ELSE 0
        /\ \A l \in {listeners[comps[c].container][j] : j \in DOMAIN listeners[comps[c].container]} :
              l.type = type /\ l.kind = "handler" => l.capture = (type \in CapturingTypes)

\* two bindings declare a touchmove handler and share one delegating
\* listener; touchstart is declared too and carries handler and recorder
C1_Witness ==
    /\ last.op = "define"
    /\ Cardinality({i \in DOMAIN comps[1].elements :
                        "touchmove" \in DOMAIN comps[1].elements[i].handlers}) >= 2
    /\ DelegatingCount(1, "touchmove") = 1
    /\ Declared(1, "touchstart")
    /\ NativeCount(1, "touchstart") = 2

----------------------------------------------------------------------------
(* Properties of a dispatch (SpecDom).                                     *)

\* the nodes from n up to top, n first; the walk's path in the current tree
RECURSIVE PathUp(_, _)
PathUp(n, top) ==
    IF n = Nil THEN <<>>
    ELSE IF n = top THEN <<n>>
    ELSE <<n>> \o PathUp(Parent(Cur, n), top)

\* node n belongs to element i of Component c: it is the container for
\* 'self', and otherwise a descendant of the container with the element's class
IsNodeOf(c, i, n) ==
    IF comps[c].elements[i].name = "self"
    THEN n = comps[c].container
    ELSE /\ n # comps[c].container
         /\ Contains(Cur, comps[c].container, n)
         /\ cls[n] = comps[c].elements[i].selector

HasHandler(c, i, type) == type \in DOMAIN comps[c].elements[i].handlers

\* the invocations of element i's handler recorded for the last dispatch
InvocationsOf(c, i) == {m \in DOMAIN log : log[m].elem = comps[c].elements[i].name}

\* C2: after a dispatch of type t at a target that is a node of binding B or
\* a descendant of one, where B has a handler for t and no binding owning a
\* node below B's node on the path has one, B's handler has been invoked
\* exactly once, for B's node on the path and with an index i such that
\* B.getAll()[i] is that node.
C2_OwnerInvokedOnce ==
    last.op = "dispatch" =>
        LET c == last.comp
            path == PathUp(last.node, comps[c].container)
        IN \A i \in ElemIds(c) : \A k \in DOMAIN path :
            ( /\ HasHandler(c, i, last.type)
              /\ IsNodeOf(c, i, path[k])
              /\ \A j \in 1..(k - 1) : \A i2 \in ElemIds(c) :
                    ~(IsNodeOf(c, i2, path[j]) /\ HasHandler(c, i2, last.type)) )
            => /\ Cardinality(InvocationsOf(c, i)) = 1
               /\ \A m \in InvocationsOf(c, i) :
                    /\ log[m].node = path[k]
                    /\ GetResult(Cur, c, i, log[m].index) = path[k]

\* C3: after a dispatch, a handler that called stopInnerPropagation is the
\* last handler invoked in that dispatch (no binding of an ancestor node,
\* 'self' included, runs after it), and the native event is marked stopped.
C3_InnerStop ==
    last.op = "dispatch" =>
        \A m \in DOMAIN log :
            log[m].stop => /\ m = Len(log)
                           /\ evStopped
                           /\ \A j \in 1..(m - 1) : log[j].node # log[m].node

\* a click on the button, whose handler stops, below the footer, whose
\* cached node is on the path and which has a click handler
C3_Witness ==
    /\ last.op = "dispatch"
    /\ last.node = ButtonEl
    /\ Len(log) = 1 /\ log[1].stop /\ log[1].elem = "button"
    /\ evStopped
    /\ \E i \in ElemIds(1) :
        /\ comps[1].elements[i].name = "footer"
        /\ HasHandler(1, i, "click")
        /\ InSeq(Parent(Cur, ButtonEl), comps[1].elements[i].nodes)

\* element i of Component c has a cached node on the path
OnPath(c, i, path) == \E k \in DOMAIN path : InSeq(path[k], comps[c].elements[i].nodes)

\* the handlers that write a node's text: the link's, which sets the header
\* text, and the other button's, whose emit reaches the observer of
\* 'testEvent', which sets the header text too (test-component.js 103-111)
TextWriters == {"setHeader", "emit"}

\* C10: a dispatch invokes no handler of a binding that has no cached node
\* on the path from the target up to the container, and it leaves the text
\* of every node as it was unless a binding whose handler writes the header
\* text (such as the link's click handler) has a cached node on that path.
C10_DispatchFrame ==
    [][ last'.op = "dispatch" =>
            \A c \in {last'.comp} :
            \A path \in {PathUp(last'.node, comps[c].container)} :
            \A off \in {{i \in ElemIds(c) : ~OnPath(c, i, path)}} :
               /\ \A m \in DOMAIN log' :
                    \A i \in off : log'[m].elem # comps[c].elements[i].name
               /\ (\A i \in ElemIds(c) \ off :
                        HasHandler(c, i, last'.type)
                        => comps[c].elements[i].handlers[last'.type] \notin TextWriters)
                    => text' = text
      ]_vars

\* a click on the footer after a click on the second link: the footer's
\* handler runs, the link's does not, and the header keeps the link's text
C10_Witness ==
    /\ last.op = "dispatch"
    /\ last.node = FooterEl
    /\ Len(log) = 1 /\ log[1].elem = "footer"
    /\ text[HeaderEl] = text[Link2El]

----------------------------------------------------------------------------
(* Properties of the node caches (SpecDom).                                *)

\* the nodes of element i now in the tree under the container
TreeNodesOf(c, i) == {n \in Nodes : IsNodeOf(c, i, n)}

Range(q) == {q[j] : j \in DOMAIN q}
IsDynamic(c, i) == comps[c].elements[i].template.kind # "none"

\* the nodes created by the call that leads to the next state which carry
\* the class of element i
AppendedOf(c, i) ==
    {n \in Nodes : /\ n > NStatic + used
                   /\ n <= NStatic + used'
                   /\ cls'[n] = comps[c].elements[i].selector}

\* C4, as stated: when X.renderTo appends, under the container, nodes that
\* match a different dynamic binding Y whose cache was empty, the next
\* Y.getAll() returns exactly the nodes of Y now in the tree, and its length
\* is the number of such nodes appended.
C4_RefreshAsStated ==
    [][ last'.op = "renderTo" =>
            \A c \in CompIds : \A y \in ElemIds(c) :
                ( /\ c = last'.comp
                  /\ y # last'.elem
                  /\ IsDynamic(c, y)
                  /\ comps[c].elements[y].nodes = <<>>
                  /\ AppendedOf(c, y) # {} )
                => /\ Range(GetAllResult(Cur, c, y)') = TreeNodesOf(c, y)'
                   /\ Len(GetAllResult(Cur, c, y)') = Cardinality(AppendedOf(c, y))
      ]_vars

\* C4, amended: when X.renderTo appends, under the container, nodes that
\* match a different dynamic binding Y whose cache was empty, the next
\* Y.getAll() returns exactly the nodes of Y now in the tree, each once: the
\* nodes appended and the nodes of Y that were under the container before.
C4_Refresh ==
    [][ last'.op = "renderTo" =>
            \A c \in CompIds : \A y \in ElemIds(c) :
                ( /\ c = last'.comp
                  /\ y # last'.elem
                  /\ IsDynamic(c, y)
                  /\ comps[c].elements[y].nodes = <<>>
                  /\ AppendedOf(c, y) # {} )
                => /\ Range(GetAllResult(Cur, c, y)') = TreeNodesOf(c, y)'
                   /\ TreeNodesOf(c, y)' = TreeNodesOf(c, y) \cup AppendedOf(c, y)
                   /\ Len(GetAllResult(Cur, c, y)') =
                        Cardinality(TreeNodesOf(c, y)) + Cardinality(AppendedOf(c, y))
      ]_vars

\* gallery.renderTo(content, one source) leaves one image under the
\* container, next to an image the caller had rendered and appended itself
C4_Witness ==
    /\ last.op = "renderTo"
    /\ last.k >= 1
    /\ comps[1].elements[last.elem].name = "gallery"
    /\ \E y \in ElemIds(1) :
        /\ comps[1].elements[y].name = "image"
        /\ Len(GetAllResult(Cur, 1, y)) = last.k + 1

\* C5: for a dynamic binding, removeAll() followed by getAll() returns
\* exactly the nodes of the binding now under the container, each once
\* (none if none remain), so no node that removeAll detached.
C5_RemoveAllThenGetAll ==
    last.op = "removeAll" /\ IsDynamic(last.comp, last.elem) =>
        LET r == GetAllResult(Cur, last.comp, last.elem)
        IN /\ Range(r) = TreeNodesOf(last.comp, last.elem)
           /\ Len(r) = Cardinality(Range(r))
           /\ \A n \in Range(r) : InDocument(n)

\* removeAll() of a binding whose cache missed a node the caller had
\* appended: the node remains and getAll() returns it
C5_Witness ==
    /\ last.op = "removeAll" /\ IsDynamic(last.comp, last.elem)
    /\ comps[last.comp].elements[last.elem].nodes = <<>>
    /\ Len(GetAllResult(Cur, last.comp, last.elem)) = 1
    /\ used >= 2

----------------------------------------------------------------------------
(* Properties of the Hub (SpecHub).                                        *)

\* C6: Hub.delete(n), for a Component c that is in Hub.components and is the
\* only Component created on container n, whatever the number of events c
\* is subscribed to, leaves c out of Hub.components and leaves no observer
\* record of c; so if every observer's component was in Hub.components
\* before, it still is.
C6_CreateDeleteRoundTrip ==
    [][ last'.op = "delete" =>
            \A c \in CompIds :
                ( /\ InSeq(c, hubComponents)
                  /\ comps[c].container = last'.node
                  /\ \A d \in CompIds \ {c} : comps[d].container # last'.node )
                => /\ ~InSeq(c, hubComponents')
                   /\ \A j \in DOMAIN observers' : observers'[j].component # c
                   /\ (\A j \in DOMAIN observers : InSeq(observers[j].component, hubComponents))
                        => \A j \in DOMAIN observers' :
                                InSeq(observers'[j].component, hubComponents')
      ]_vars

\* what a broadcast is to deliver and what it delivered: (component, event,
\* handler) of observer records, in order
Subscription(o) == [component |-> o.component, event |-> o.event, kind |-> o.handler]
Delivery(d) == [component |-> d.component, event |-> d.event, kind |-> d.kind]

\* C7: emit(event, payload) by Component A invokes, in subscription order
\* and exactly once each, the handlers of the observer records whose event
\* is the emitted one and whose component is not A, and no other handler.
C7_BroadcastDelivery ==
    [][ last'.op = "emit" =>
            \A due \in {SelectSeq(observers,
                            LAMBDA o : o.event = last'.event /\ o.component # last'.comp)} :
                [j \in DOMAIN delivered' |-> Delivery(delivered'[j])]
                    = [j \in DOMAIN due |-> Subscription(due[j])]
      ]_vars

\* C8: every handler invoked by an emit of Component A with payload p is
\* given the fields of p and a target, which is p.target if p has one and A
\* if it has none (or p is absent); the fields of p are passed on unchanged.
C8_BroadcastPayload ==
    last.op = "emit" =>
        \A m \in DOMAIN delivered :
            \A p \in {delivered[m].payload} :
                /\ DOMAIN p = DOMAIN last.payload \cup {"target"}
                /\ \A k \in DOMAIN last.payload : p[k] = last.payload[k]
                /\ "target" \notin DOMAIN last.payload => p["target"] = last.comp

\* a payload with a target of its own and a key has reached a handler
C8_Witness ==
    /\ last.op = "emit"
    /\ delivered # <<>>
    /\ "target" \in DOMAIN last.payload
    /\ delivered[1].payload["target"] = last.payload["target"]
    /\ delivered[1].payload["target"] # last.comp
    /\ delivered[1].payload["key"] = KeyValue

----------------------------------------------------------------------------
(* Properties of the gallery scenario (SpecGallery).                       *)

\* Component.element('image').getAll().length
ImageCount == Len(GetAllResult(Cur, 1, ElementIdx(Cur, 1, "image")))
\* the gallery nodes now under the container
GalleriesInTree == TreeNodesOf(1, ElementIdx(Cur, 1, "gallery"))

\* C9: addGallery with k sources adds k to image.getAll().length, which is
\* therefore k when no gallery was in the tree (none rendered yet, or all
\* removed); removeGallery, called directly or by the 'testEvent' observer,
\* makes it 0; so a render after a removal counts only its own images.
C9_GalleryScenario ==
    [][ /\ last'.op = "addGallery" =>
            /\ ImageCount' = ImageCount + last'.k
            /\ GalleriesInTree = {} => ImageCount' = last'.k
        /\ last'.op \in {"removeGallery", "dispatch"} =>
            /\ ImageCount' = 0
            /\ GalleriesInTree' = {}
      ]_vars

\* a gallery of m >= 1 images rendered after an earlier gallery with images
\* was removed: one gallery in the tree, m images
C9_Witness ==
    /\ last.op = "addGallery"
    /\ last.k >= 1
    /\ used >= last.k + 3
    /\ Cardinality(GalleriesInTree) = 1
    /\ ImageCount = last.k

----------------------------------------------------------------------------
(* Properties of the startup hooks (SpecStartup).                          *)

\* the startup() invocations of the last define call on element i
StartupsOf(c, i) == {m \in DOMAIN startups : startups[m].name = comps[c].elements[i].name}

\* C11: in one define call, no startup() runs before every binding of the
\* call is stored in the Component's elements, and every binding with a
\* startup hook and a non-empty node cache has it invoked exactly once.
C11_StartupOrdering ==
    last.op = "define" =>
        /\ \A m \in DOMAIN startups :
                startups[m].defined = Len(comps[last.comp].elements)
        /\ \A i \in ElemIds(last.comp) :
                comps[last.comp].elements[i].startup
                /\ comps[last.comp].elements[i].nodes # <<>>
                => Cardinality(StartupsOf(last.comp, i)) = 1

----------------------------------------------------------------------------
(* Properties of a dispatch whose handlers change the tree (SpecDetach).   *)

\* C12: every dispatch ends without error, and the handlers it invoked were
\* invoked for nodes on the path from the target up to the container, also
\* when a handler takes the current node or one of its ancestors out of the
\* tree.
C12_WalkTerminates ==
    [][ last'.op = "dispatch" =>
            \A path \in {PathUp(last'.node, comps[last'.comp].container)} :
                /\ ~err'
                /\ \A m \in DOMAIN log' : InSeq(log'[m].node, path)
      ]_vars

----------------------------------------------------------------------------
(* Properties of events with a relatedTarget (SpecRelated).                *)

\* b is a descendant of a, and not a itself
IsBelow(a, b) == a # b /\ Contains(Cur, a, b)

\* some binding with a handler for the type owns node n
OwnedWithHandler(c, n, type) ==
    \E i \in ElemIds(c) : IsNodeOf(c, i, n) /\ HasHandler(c, i, type)

Invoked(n) == \E m \in DOMAIN log : log[m].node = n

\* C13, as stated: at each node of the walk whose binding has a handler for
\* the type, the handler is skipped exactly when related is present, lies
\* below current and is not current; it is invoked when related is absent,
\* outside current, or the same node as current.
C13_EnterLeaveAsStated ==
    last.op = "dispatch" =>
        \A path \in {PathUp(last.node, comps[last.comp].container)} :
            \A k \in DOMAIN path :
                OwnedWithHandler(last.comp, path[k], last.type) =>
                    (Invoked(path[k]) <=>
                        ~(last.related # Nil /\ IsBelow(path[k], last.related)))

\* C13, amended: at each node of the walk whose binding has a handler for
\* the type, the handler is skipped exactly when related is present and is
\* current itself or lies below current; it is invoked when related is
\* absent or lies outside current.
C13_EnterLeave ==
    last.op = "dispatch" =>
        \A path \in {PathUp(last.node, comps[last.comp].container)} :
            \A k \in DOMAIN path :
                OwnedWithHandler(last.comp, path[k], last.type) =>
                    (Invoked(path[k]) <=>
                        ~(last.related # Nil
                          /\ (path[k] = last.related \/ IsBelow(path[k], last.related))))

\* an event at the button with the footer as relatedTarget: the button's
\* handler runs (related is outside), the footer's (related is the footer)
\* and the container's (related is below) do not
C13_Witness ==
    /\ last.op = "dispatch"
    /\ last.node = ButtonEl
    /\ last.related = FooterEl
    /\ Len(log) = 1
    /\ log[1].node = ButtonEl

\* the nodes the handlers of the last dispatch were invoked for, in order
LogNodes == [m \in DOMAIN log |-> log[m].node]

\* C14: in a dispatch of any type, bubbling (click) or capturing (focus),
\* handlers are invoked for nodes of the path from the target up to the
\* container, each node at most once and a node before its ancestors; with
\* no relatedTarget they are invoked for every node of the path whose
\* binding has a handler for the type, from the target outwards.
C14_InnerToOuter ==
    last.op = "dispatch" =>
        \A path \in {PathUp(last.node, comps[last.comp].container)} :
            /\ \A m \in DOMAIN log : InSeq(log[m].node, path)
            /\ \A m1, m2 \in DOMAIN log :
                    m1 < m2 => /\ IndexOf(log[m1].node, path) < IndexOf(log[m2].node, path)
                               /\ IsBelow(log[m2].node, log[m1].node)
            /\ last.related = Nil =>
                    LogNodes = SelectSeq(path,
                                    LAMBDA n : OwnedWithHandler(last.comp, n, last.type))

\* a focus event (capturing) at the second link: the link's handler, then
\* the content's, then the container's
C14_Witness ==
    /\ last.op = "dispatch"
    /\ last.type = "focus"
    /\ last.related = Nil
    /\ LogNodes = <<Link2El, ContentEl, ContainerEl>>
    /\ \E j \in DOMAIN listeners[ContainerEl] :
            listeners[ContainerEl][j].type = "focus" /\ listeners[ContainerEl][j].capture

----------------------------------------------------------------------------
(* Properties of the node caches of all bindings (SpecCache).              *)

\* C15: after a renderTo, remove or removeAll call, getAll() of every
\* binding, static or dynamic, returns exactly the nodes now under the
\* container that match the binding's selector.
C15_CacheReflectsTree ==
    last.op \in {"renderTo", "remove", "removeAll"} /\ ~err =>
        \A i \in ElemIds(last.comp) :
            Range(GetAllResult(Cur, last.comp, i)) = TreeNodesOf(last.comp, i)

\* C16: in every state the cached node list of 'self' is <<container>>.
C16_SelfIsContainer ==
    \A c \in CompIds : \A i \in ElemIds(c) :
        comps[c].elements[i].name = "self"
        => comps[c].elements[i].nodes = <<comps[c].container>>

\* C17: getAll() of a static binding with a non-empty cache leaves the cache
\* as it is, whatever the tree holds; in every other case (empty cache, or
\* a template) the cache is afterwards the matching nodes of the tree.  The
\* refresh pass of renderTo leaves static non-empty caches unchanged too.
C17_GetAllResolve ==
    [][ /\ last'.op = "getAll" =>
            \A c \in {last'.comp} : \A i \in {last'.elem} :
                LET e == comps[c].elements[i]
                IN IF Len(e.nodes) # 0 /\ ~IsDynamic(c, i)
                   THEN comps'[c].elements[i].nodes = e.nodes
                   ELSE Range(comps'[c].elements[i].nodes) = TreeNodesOf(c, i)'
        /\ last'.op = "renderTo" /\ ~err' =>
            \A c \in {last'.comp} : \A i \in ElemIds(c) :
                Len(comps[c].elements[i].nodes) # 0 /\ ~IsDynamic(c, i)
                => comps'[c].elements[i].nodes = comps[c].elements[i].nodes
      ]_vars

\* getAll() was called on a static binding whose cache is not what the tree holds
C17_Witness ==
    /\ last.op = "getAll"
    /\ ~IsDynamic(last.comp, last.elem)
    /\ comps[last.comp].elements[last.elem].nodes # <<>>
    /\ Range(comps[last.comp].elements[last.elem].nodes) # TreeNodesOf(last.comp, last.elem)

----------------------------------------------------------------------------
(* Properties of findElement with several bindings on a node (SpecShared). *)

\* the bindings of Component c whose cache holds node n
CachingBindings(c, n) == {i \in ElemIds(c) : InSeq(n, comps[c].elements[i].nodes)}

\* the first of them in insertion order
FirstBinding(c, n) == CHOOSE i \in CachingBindings(c, n) : \A j \in CachingBindings(c, n) : i <= j

\* C18: for each node visited by a dispatch at most one handler is invoked:
\* that of the first binding in insertion order whose cache holds the node,
\* with the index of the node in that cache; when no cache holds the node or
\* that first binding has no handler for the type, none is invoked, even if
\* a later binding holds the node and has a handler.
C18_FirstMatch ==
    last.op = "dispatch" =>
        \A c \in {last.comp} : \A path \in {PathUp(last.node, comps[c].container)} :
            \A k \in DOMAIN path :
                LET entries == {m \in DOMAIN log : log[m].node = path[k]}
                    owners == CachingBindings(c, path[k])
                IN IF owners # {} /\ HasHandler(c, FirstBinding(c, path[k]), last.type)
                   THEN /\ Cardinality(entries) = 1
                        /\ \A m \in entries :
                            LET e == comps[c].elements[FirstBinding(c, path[k])]
                            IN /\ log[m].elem = e.name
                               /\ log[m].index = IndexOf(path[k], e.nodes) - 1
                   ELSE entries = {}

\* a click at the first link: 'item', inserted first, holds the link and has
\* no click handler, 'link' holds it too and has one; the walk goes on to the
\* content node without a handler having run for the link
C18_Witness ==
    /\ last.op = "dispatch"
    /\ last.type = "click"
    /\ last.node = Link1El
    /\ \E i, j \in CachingBindings(1, Link1El) :
            /\ i < j
            /\ i = FirstBinding(1, Link1El)
            /\ ~HasHandler(1, i, "click")
            /\ HasHandler(1, j, "click")
    /\ LogNodes = <<ContentEl>>

----------------------------------------------------------------------------
(* Properties of dispatch at the nodes of dynamic bindings (SpecDom).      *)

\* C19: a dispatch of type t at a node under the container that carries the
\* class of a dynamic binding with a handler for t invokes that handler for
\* the node, whether renderTo inserted the node or the caller appended the
\* result of render().
C19_DynamicReachable ==
    last.op = "dispatch" =>
        \A c \in {last.comp} : \A i \in ElemIds(c) :
            IsDynamic(c, i) /\ HasHandler(c, i, last.type) /\ IsNodeOf(c, i, last.node)
            => \E m \in DOMAIN log :
                    log[m].elem = comps[c].elements[i].name /\ log[m].node = last.node

----------------------------------------------------------------------------
(* Properties of renderTo without a node or a target (SpecCache).          *)

\* C20: a renderTo on a binding without a template, or with no target,
\* raises no error, leaves the children of every node of the tree as they
\* were, gives no parent to a node it created, and leaves the cache of
\* every binding of the Component unchanged.
C20_RenderToNoOp ==
    [][ last'.op = "renderTo" =>
            \A c \in {last'.comp} : \A i \in {last'.elem} :
                last'.node = Nil \/ ~IsDynamic(c, i)
                => /\ ~err'
                   /\ \A n \in Nodes :
                        IF n <= NStatic + used
                        THEN children'[n] = children[n]
                        ELSE Parent(Cur, n)' = Nil
                   /\ \A j \in ElemIds(c) :
                        comps'[c].elements[j].nodes = comps[c].elements[j].nodes
      ]_vars

\* renderTo with no target on a binding with a template, when the cache of
\* a dynamic binding is not what the tree holds
C20_Witness ==
    /\ last.op = "renderTo"
    /\ last.node = Nil
    /\ IsDynamic(last.comp, last.elem)
    /\ used > 0
    /\ ~err
    /\ \E j \in ElemIds(last.comp) :
            /\ IsDynamic(last.comp, j)
            /\ Range(comps[last.comp].elements[j].nodes) # TreeNodesOf(last.comp, j)

----------------------------------------------------------------------------
(* Properties of a broadcast whose handlers use the Hub (SpecBroadcast).   *)

\* the observer records a broadcast of `event` by Component c is to reach
Due(obs, c, event) == SelectSeq(obs, LAMBDA o : o.event = event /\ o.component # c)

\* how many entries of sequence q are x
CountOf(q, x) == Cardinality({j \in DOMAIN q : q[j] = x})

\* the handlers invoked by the broadcast of the last emit itself, without
\* those of the broadcasts its handlers started
OuterDeliveries ==
    LET own == SelectSeq(delivered, LAMBDA d : d.event = last.event)
    IN [j \in DOMAIN own |-> Delivery(own[j])]

\* C21: the handlers a broadcast invokes are those of the observer records
\* that were in Hub.observers when it began, match the event and belong to
\* another Component than the sender, each once, also when a handler calls
\* Hub.delete, Hub.subscribe or Hub.unsubscribe during the broadcast.
C21_SnapshotDelivery ==
    [][ last'.op = "emit" =>
            \A due \in {Due(observers, last'.comp, last'.event)} :
                /\ Len(OuterDeliveries') = Len(due)
                /\ \A j \in DOMAIN due :
                        CountOf(OuterDeliveries', Subscription(due[j]))
                            = CountOf(due, due[j])
      ]_vars

\* the deliveries of a broadcast to the records due[k..], in order, when
\* handlers only read the payload or relay: a relaying handler's own
\* broadcast is delivered in full right after the handler is entered
RECURSIVE ExpectedFrom(_, _, _)
ExpectedFrom(obs, due, k) ==
    IF k > Len(due) THEN <<>>
    ELSE LET nested == IF due[k].handler = "relay"
                       THEN Due(obs, due[k].component, RelayEvent)
                       ELSE <<>>
         IN <<Subscription(due[k])>>
            \o [j \in DOMAIN nested |-> Subscription(nested[j])]
            \o ExpectedFrom(obs, due, k + 1)

\* no handler subscribed changes Hub.observers
QuietObservers == \A j \in DOMAIN observers : observers[j].handler \in {"log", "relay"}

\* C22: when a handler invoked by a broadcast emits, the deliveries of the
\* nested broadcast come right after that handler's entry and before the
\* outer broadcast's next observer: a nested delivery directly follows the
\* relaying handler that sent it or another delivery of the same nested
\* broadcast, and with handlers that leave Hub.observers alone the whole
\* sequence of deliveries of an emit is the depth-first one.
C22_DepthFirst ==
    [][ last'.op = "emit" /\ last'.event # RelayEvent =>
            /\ \A m \in DOMAIN delivered' :
                    delivered'[m].event = RelayEvent =>
                        /\ m > 1
                        /\ \/ /\ delivered'[m - 1].kind = "relay"
                              /\ delivered'[m - 1].component = delivered'[m].payload["target"]
                           \/ /\ delivered'[m - 1].event = RelayEvent
                              /\ delivered'[m - 1].payload["target"]
                                    = delivered'[m].payload["target"]
            /\ QuietObservers =>
                    [j \in DOMAIN delivered' |-> Delivery(delivered'[j])]
                        = ExpectedFrom(observers,
                                       Due(observers, last'.comp, last'.event), 1)
      ]_vars

\* an emit reached a relaying handler and then a second handler of the same
\* broadcast, with the relayed event delivered in between
C22_Witness ==
    /\ last.op = "emit"
    /\ Len(delivered) = 3
    /\ delivered[1].kind = "relay" /\ delivered[1].event = last.event
    /\ delivered[2].event = RelayEvent /\ delivered[2].component = last.comp
    /\ delivered[3].event = last.event /\ delivered[3].component = delivered[1].component

\* C23: unsubscribe(c, event) leaves in Hub.observers, in their order, the
\* records that are not of Component c or, when an event is given, are of
\* another event; no record of c for the event (of c at all, when the event
\* is omitted) remains, and Hub.components is unchanged.
C23_UnsubscribeFrame ==
    [][ last'.op = "unsubscribe" =>
            \A c \in {last'.comp} : \A event \in {last'.event} :
                /\ observers' = SelectSeq(observers,
                        LAMBDA o : o.component # c \/ (event # "" /\ o.event # event))
                /\ \A j \in DOMAIN observers' :
                        observers'[j].component = c
                        => event # "" /\ observers'[j].event # event
                /\ hubComponents' = hubComponents
      ]_vars

\* unsubscribe(c, event) took one of three records away: a record of c for
\* another event and a record of another Component for the same event stay
C23_Witness ==
    /\ last.op = "unsubscribe"
    /\ last.event # ""
    /\ last.k = 3
    /\ Len(observers) = 2
    /\ observers[1].component = last.comp /\ observers[1].event # last.event
    /\ observers[2].component # last.comp /\ observers[2].event = last.event

----------------------------------------------------------------------------
(* Properties of Components deleted from the Hub (SpecDeleted).            *)

\* C24: Hub.delete(node) leaves every Component's bindings, node caches and
\* registeredHandlers, the native listeners of every node and the tree as
\* they were; and a native event at a node cached by a binding of a
\* Component that is no longer in Hub.components still invokes, first of
\* all, the handler that binding has for the type.
C24_DeleteFrame ==
    [][ /\ last'.op = "delete" =>
            /\ comps' = comps
            /\ listeners' = listeners
            /\ children' = children /\ cls' = cls /\ text' = text /\ used' = used
        /\ last'.op = "dispatch" =>
            \A c \in {last'.comp} : \A n \in {last'.node} : \A type \in {last'.type} :
                ( /\ ~InSeq(c, hubComponents)
                  /\ CachingBindings(c, n) # {}
                  /\ HasHandler(c, FirstBinding(c, n), type) )
                => /\ log' # <<>>
                   /\ log'[1].node = n
                   /\ log'[1].elem = comps[c].elements[FirstBinding(c, n)].name
      ]_vars

\* a click at the first link after its Component was deleted from the Hub:
\* the link's handler ran and wrote the link's text to the header
C24_Witness ==
    /\ last.op = "dispatch"
    /\ last.comp = 1
    /\ last.node = Link1El
    /\ ~InSeq(1, hubComponents)
    /\ log # <<>>
    /\ log[1].elem = "link"
    /\ text[HeaderEl] = text[Link1El]

====
